---- MODULE Spec2Model ----
(***************************************************************************)
(* A model of the text-analysis engine of WD - Word Counter                 *)
(* (src/src/ui_mainwindow.py): analyze_with_python, extract_words,          *)
(* split_text_into_chunks, generate_word_heatmap and                        *)
(* update_keyword_analysis.  A text is a sequence of one-character strings. *)
(* Only ASCII characters are modelled.                                      *)
(***************************************************************************)
EXTENDS Integers, Sequences, FiniteSets

VARIABLES
    text,          \* the text buffer handed to the engine
    pc,            \* "input" | "analyzed" | "extracted" | "chunked" | "timed" |
                   \* "heatmapped" | "keywords"
    stats,         \* the report dict of analyze_with_python
    words,         \* analyze_with_python's local list `words`
    word_counts,   \* analyze_with_python's local Counter `word_counts`
    num_chunks,    \* the argument num_chunks of split_text_into_chunks
    chunks,        \* the value returned by split_text_into_chunks
    raised,        \* the exception the last call raised, or "none"
    nwords,        \* a word count, len(words), fed to the reading-time formula
    reading_time,  \* the reading_time_seconds computed from nwords
    extracted,     \* the list extract_words returned for the lowercased text
    top_n,         \* the argument top_n of generate_word_heatmap
    heatmap,       \* the value returned by generate_word_heatmap
    keywords_text, \* the content of keyword_input
    keyword_rows,  \* the rows of keyword_table
    seo_recommendations,  \* the text of the seo_recommendations label
    keyword_hits,  \* a keyword's count, fed with nwords to the density formula
    flesch_score,  \* the Flesch Reading Ease score textstat returned, in tenths
    readability_desc,  \* the text of the readability_desc label
    set_order,     \* list(set(words)) for the words of the text, as the running
                   \* process's hash seed orders it
    stats_again,   \* the report of a second analyze_with_python of the text
    now,           \* time.time(), in milliseconds since the window opened
    timer_due,     \* when update_timer times out, or -1 while it is stopped
    edited_at,     \* when text_input last emitted textChanged
    stats_history, \* self.stats_history
    actions,       \* the number of edits, clears and pastes the user has made
    stats_text,    \* update_stats's local `text`, as it last read the buffer
    keyword_text   \* update_keyword_analysis's local `text`, as last read

\* the state of the heatmap and keyword tools
toolVars == <<extracted, top_n, heatmap, keyword_rows, seo_recommendations>>

\* the inputs and the state of the calls made on their own and of the window
sessionVars == <<keyword_hits, flesch_score, readability_desc, set_order,
                 stats_again>>

\* the state of the window: its clock, its timer and its history
windowVars == <<now, timer_due, edited_at, stats_history, actions, stats_text,
                keyword_text>>

vars == <<text, pc, stats, words, word_counts, num_chunks, chunks, raised,
          nwords, reading_time, keywords_text, toolVars, sessionVars,
          windowVars>>

----------------------------------------------------------------------------
(* Characters and Python's str methods *)

LowerLetters == {"a","b","c","d","e","f","g","h","i","j","k","l","m",
                 "n","o","p","q","r","s","t","u","v","w","x","y","z"}

UpperLetters == {"A","B","C","D","E","F","G","H","I","J","K","L","M",
                 "N","O","P","Q","R","S","T","U","V","W","X","Y","Z"}

Digits == {"0","1","2","3","4","5","6","7","8","9"}

\* str.lower() on one character
LowerOf == [A |-> "a", B |-> "b", C |-> "c", D |-> "d", E |-> "e", F |-> "f",
            G |-> "g", H |-> "h", I |-> "i", J |-> "j", K |-> "k", L |-> "l",
            M |-> "m", N |-> "n", O |-> "o", P |-> "p", Q |-> "q", R |-> "r",
            S |-> "s", T |-> "t", U |-> "u", V |-> "v", W |-> "w", X |-> "x",
            Y |-> "y", Z |-> "z"]

\* the ASCII characters c with c.isspace(): what str.strip() removes
IsSpace(c) == c \in {" ", "\t", "\n", "\r", "\f"}

\* the regex class \w (ASCII part): letters, digits and the underscore
IsWordChar(c) == c \in LowerLetters \cup UpperLetters \cup Digits \cup {"_"}

\* the regex class [a-zA-Z]
IsAlpha(c) == c \in LowerLetters \cup UpperLetters

\* the regex class [.!?]
IsTerminator(c) == c \in {".", "!", "?"}

Min(a, b) == IF a < b THEN a ELSE b

Max(a, b) == IF a > b THEN a ELSE b

\* a lower() that is left out
str_lower_Identity(s) == s

\* text.lower()
str_lower(s) ==
    [i \in 1..Len(s) |-> IF s[i] \in UpperLetters THEN LowerOf[s[i]] ELSE s[i]]

\* s.strip(): s without its leading and trailing whitespace
str_strip(s) ==
    LET keep == {i \in 1..Len(s) : ~IsSpace(s[i])}
    IN  IF keep = {} THEN <<>>
        ELSE LET lo == CHOOSE i \in keep : \A j \in keep : i <= j
                 hi == CHOOSE i \in keep : \A j \in keep : i >= j
             IN  SubSeq(s, lo, hi)

\* s.replace(c, ""): s without the occurrences of the character c
str_remove(s, c) == SelectSeq(s, LAMBDA x : x # c)

----------------------------------------------------------------------------
(* The re module: findall of \b<class>+\b and split on [.!?]+ *)

\* \b at position i (between s[i-1] and s[i]): exactly one side is a \w
WordBoundary(s, i) ==
    LET before == i > 1 /\ i - 1 <= Len(s) /\ IsWordChar(s[i - 1])
        after  == i >= 1 /\ i <= Len(s) /\ IsWordChar(s[i])
    IN  before # after

\* the last index of the greedy run of class characters starting at i
RECURSIVE GreedyEnd(_, _, _)
GreedyEnd(InClass, s, i) ==
    IF i + 1 <= Len(s) /\ InClass[s[i + 1]]
    THEN GreedyEnd(InClass, s, i + 1)
    ELSE i

\* the end of the match of \b<class>+\b starting at i, 0 when there is none:
\* the run is taken greedily and given back one character at a time until a
\* \b follows it
MatchEnd(InClass, s, i) ==
    IF ~(WordBoundary(s, i) /\ InClass[s[i]]) THEN 0
    ELSE LET g    == GreedyEnd(InClass, s, i)
             ends == {e \in i..g : WordBoundary(s, e + 1)}
         IN  IF ends = {} THEN 0
             ELSE CHOOSE e \in ends : \A f \in ends : f <= e

\* re.findall: the non-overlapping matches, scanning left to right from i
RECURSIVE FindAllFrom(_, _, _)
FindAllFrom(InClass, s, i) ==
    IF i > Len(s) THEN <<>>
    ELSE LET e == MatchEnd(InClass, s, i)
         IN  IF e = 0 THEN FindAllFrom(InClass, s, i + 1)
             ELSE <<SubSeq(s, i, e)>> \o FindAllFrom(InClass, s, e + 1)

\* the characters of s, as the domain of a class table
CharsOf(s) == {s[i] : i \in 1..Len(s)}

\* re.findall(r'\b\w+\b', s)
findall_word(s) == FindAllFrom([c \in CharsOf(s) |-> IsWordChar(c)], s, 1)

\* extract_words: re.findall(r'\b[a-zA-Z]+\b', s)
extract_words(s) == FindAllFrom([c \in CharsOf(s) |-> IsAlpha(c)], s, 1)

\* re.split(r'[.!?]+', s): the segments between the runs of terminators,
\* the empty leading and trailing ones included
RECURSIVE ReSplitFrom(_, _, _)
ReSplitFrom(s, start, i) ==
    IF i > Len(s) THEN <<SubSeq(s, start, Len(s))>>
    ELSE IF IsTerminator(s[i])
         THEN LET g == GreedyEnd([c \in CharsOf(s) |-> IsTerminator(c)], s, i)
              IN  <<SubSeq(s, start, i - 1)>> \o ReSplitFrom(s, g + 1, g + 1)
         ELSE ReSplitFrom(s, start, i + 1)

re_split_terminators(s) == ReSplitFrom(s, 1, 1)

\* s.split('\n\n'): the segments between the non-overlapping occurrences of
\* two newlines, found left to right
RECURSIVE StrSplitFrom(_, _, _)
StrSplitFrom(s, start, i) ==
    IF i + 1 > Len(s) THEN <<SubSeq(s, start, Len(s))>>
    ELSE IF s[i] = "\n" /\ s[i + 1] = "\n"
         THEN <<SubSeq(s, start, i - 1)>> \o StrSplitFrom(s, i + 2, i + 2)
         ELSE StrSplitFrom(s, start, i + 1)

\* s.split(c) for a one-character c: the segments between the occurrences
\* of c
RECURSIVE StrSplitCharFrom(_, _, _, _)
StrSplitCharFrom(s, c, start, i) ==
    IF i > Len(s) THEN <<SubSeq(s, start, Len(s))>>
    ELSE IF s[i] = c
         THEN <<SubSeq(s, start, i - 1)>> \o StrSplitCharFrom(s, c, i + 1, i + 1)
         ELSE StrSplitCharFrom(s, c, start, i + 1)

\* s.split('\n'): a split at every single newline
str_split_blank_line_EveryNewline(s) == StrSplitCharFrom(s, "\n", 1, 1)

str_split_blank_line(s) == StrSplitFrom(s, 1, 1)

----------------------------------------------------------------------------
(* collections.Counter: a dict, kept as the sequence of its <<key, count>>  *)
(* items in insertion order                                                 *)

\* d[w] = d.get(w, 0) + 1
CounterIncr(d, w) ==
    IF \E i \in DOMAIN d : d[i][1] = w
    THEN [i \in DOMAIN d |-> IF d[i][1] = w THEN <<w, d[i][2] + 1>> ELSE d[i]]
    ELSE Append(d, <<w, 1>>)

RECURSIVE CounterUpdate(_, _, _)
CounterUpdate(d, ws, i) ==
    IF i > Len(ws) THEN d
    ELSE CounterUpdate(CounterIncr(d, ws[i]), ws, i + 1)

\* a Counter fed set(ws): every distinct word once
Counter_OfSet(ws) ==
    CounterUpdate(<<>>, SelectSeq([i \in 1..Len(ws) |-> IF \E j \in 1..(i - 1) : ws[j] = ws[i]
                                                         THEN <<>> ELSE ws[i]],
                                  LAMBDA w : w # <<>>), 1)

\* Counter(ws)
Counter(ws) == CounterUpdate(<<>>, ws, 1)

\* the counts of the items d[1..i], added up
RECURSIVE SumOfCounts(_, _)
SumOfCounts(d, i) == IF i = 0 THEN 0 ELSE SumOfCounts(d, i - 1) + d[i][2]

\* an insertion that puts an item before the items of equal key: the sort
\* is no longer stable
InsertDesc_BeforeEqual(sorted, p) ==
    LET n == Cardinality({i \in DOMAIN sorted : sorted[i][1] > p[1]})
    IN  SubSeq(sorted, 1, n) \o <<p>> \o SubSeq(sorted, n + 1, Len(sorted))

\* sorted(items, key=..., reverse=True) on <<key, value>> pairs: a stable
\* sort, so items of equal key keep their order.  Each item is inserted
\* after the items whose key is at least its own.
InsertDesc(sorted, p) ==
    LET n == Cardinality({i \in DOMAIN sorted : sorted[i][1] >= p[1]})
    IN  SubSeq(sorted, 1, n) \o <<p>> \o SubSeq(sorted, n + 1, Len(sorted))

RECURSIVE SortDescFrom(_, _, _)
SortDescFrom(sorted, ps, i) ==
    IF i > Len(ps) THEN sorted
    ELSE SortDescFrom(InsertDesc(sorted, ps[i]), ps, i + 1)

sorted_reverse(ps) == SortDescFrom(<<>>, ps, 1)

\* the slice s[:n] for n >= 0
Take(s, n) == SubSeq(s, 1, Min(n, Len(s)))

\* word_counts.most_common(n): heapq.nlargest(n, items, key=count), which
\* is sorted(items, key=count, reverse=True)[:n]
most_common(d, n) ==
    LET ps == sorted_reverse([i \in DOMAIN d |-> <<d[i][2], d[i]>>])
    IN  Take([i \in DOMAIN ps |-> ps[i][2]], n)

\* the orders in which list(set(...)) can hand out the elements of S: the
\* iteration order of a set of str depends on the process's hash seed
RECURSIVE ListsOfSet(_)
ListsOfSet(S) ==
    IF S = {} THEN {<<>>}
    ELSE UNION {{<<x>> \o l : l \in ListsOfSet(S \ {x})} : x \in S}

\* unique_words.sort(key=len, reverse=True); unique_words[:n]
sort_longest(unique_words, n) ==
    LET ps == sorted_reverse([i \in DOMAIN unique_words |->
                                 <<Len(unique_words[i]), unique_words[i]>>])
    IN  Take([i \in DOMAIN ps |-> ps[i][2]], n)

----------------------------------------------------------------------------
(* Python float: an IEEE 754 binary64.  A positive float is its 53          *)
(* significand bits, most significant first, and the exponent of the first  *)
(* bit; its value is sum(m[i] * 2^(e - i + 1)).  Zero has no bits.          *)

MantissaBits == 53

FloatZero == [m |-> <<>>, e |-> 0]

\* the exponent e with 2^e <= n/d < 2^(e+1), for n, d > 0
RECURSIVE ExponentUp(_, _, _)
ExponentUp(n, d, k) == IF d * (2 ^ (k + 1)) <= n THEN ExponentUp(n, d, k + 1) ELSE k

RECURSIVE ExponentDown(_, _, _)
ExponentDown(n, d, k) == IF n * (2 ^ k) >= d THEN 0 - k ELSE ExponentDown(n, d, k + 1)

QuotientExponent(n, d) == IF n >= d THEN ExponentUp(n, d, 0) ELSE ExponentDown(n, d, 1)

\* the binary expansion of r/den (r < den) appended to st.bits until there
\* are `total` bits, and whether anything is left after them
RECURSIVE DivisionBits(_, _, _)
DivisionBits(st, den, total) ==
    IF Len(st.bits) >= total THEN [bits |-> st.bits, inexact |-> st.r # 0]
    ELSE IF 2 * st.r >= den
         THEN DivisionBits([bits |-> Append(st.bits, 1), r |-> 2 * st.r - den],
                           den, total)
         ELSE DivisionBits([bits |-> Append(st.bits, 0), r |-> 2 * st.r],
                           den, total)

\* bits + 1 on a bit sequence, most significant bit first (a carry out of
\* the first bit adds a bit)
RECURSIVE BitsIncrement(_, _)
BitsIncrement(bits, i) ==
    IF i = 0 THEN <<1>> \o bits
    ELSE IF bits[i] = 0 THEN [bits EXCEPT ![i] = 1]
         ELSE BitsIncrement([bits EXCEPT ![i] = 0], i - 1)

\* round-to-nearest, ties-to-even, of the significand `bits` (first bit 1,
\* exponent e) to MantissaBits bits; sticky: the value has more below bits
FloatRound(bits, e, sticky) ==
    IF Len(bits) <= MantissaBits
    THEN [m |-> bits \o [i \in 1..(MantissaBits - Len(bits)) |-> 0], e |-> e]
    ELSE LET keep  == SubSeq(bits, 1, MantissaBits)
             guard == bits[MantissaBits + 1]
             below == sticky \/ \E i \in (MantissaBits + 2)..Len(bits) : bits[i] = 1
             up    == guard = 1 /\ (below \/ keep[MantissaBits] = 1)
             inc   == BitsIncrement(keep, MantissaBits)
         IN  IF ~up THEN [m |-> keep, e |-> e]
             ELSE IF Len(inc) > MantissaBits
                  THEN [m |-> SubSeq(inc, 1, MantissaBits), e |-> e + 1]
                  ELSE [m |-> inc, e |-> e]

\* n / d for int n >= 0, d > 0: the float nearest to the quotient
FloatDiv(n, d) ==
    IF n = 0 THEN FloatZero
    ELSE LET e   == QuotientExponent(n, d)
             num == IF e >= 0 THEN n ELSE n * (2 ^ (0 - e))
             den == IF e >= 0 THEN d * (2 ^ e) ELSE d
             q   == DivisionBits([bits |-> <<1>>, r |-> num - den], den,
                                 MantissaBits + 1)
         IN  FloatRound(q.bits, e, q.inexact)

\* bits * k on a bit sequence, for an int k >= 1: from the last bit on,
\* st.i the next bit to multiply, st.carry the carry, st.out the bits so far
RECURSIVE BitsTimes(_, _, _)
BitsTimes(bits, k, st) ==
    IF st.i = 0
    THEN IF st.carry = 0 THEN st.out
         ELSE BitsTimes(bits, k, [i |-> 0, carry |-> st.carry \div 2,
                                  out |-> <<st.carry % 2>> \o st.out])
    ELSE BitsTimes(bits, k, [i |-> st.i - 1,
                             carry |-> (bits[st.i] * k + st.carry) \div 2,
                             out |-> <<(bits[st.i] * k + st.carry) % 2>> \o st.out])

\* x * k for a float x >= 0 and an int k >= 1 that a float holds exactly:
\* the float nearest to the product
FloatTimes(x, k) ==
    IF x.m = <<>> THEN FloatZero
    ELSE LET p == BitsTimes(x.m, k, [i |-> Len(x.m), carry |-> 0, out |-> <<>>])
         IN  FloatRound(p, x.e + (Len(p) - Len(x.m)), FALSE)

\* the int whose binary digits are bits[1..i]
RECURSIVE BitsToInt(_, _)
BitsToInt(bits, i) ==
    IF i = 0 THEN 0 ELSE 2 * BitsToInt(bits, i - 1) + bits[i]

\* int(x) for a float x >= 0: the integer part
FloatToInt(x) ==
    IF x.m = <<>> \/ x.e < 0 THEN 0
    ELSE BitsToInt(x.m, x.e + 1)

WordsPerMinute == 225

SecondsPerMinute == 60

\* int((len(words) / 225) * 60)
reading_time_seconds(n) ==
    FloatToInt(FloatTimes(FloatDiv(n, WordsPerMinute), SecondsPerMinute))

----------------------------------------------------------------------------
(* analyze_with_python *)

TopN == 5

LongestN == 5

\* the dict `stats` as analyze_with_python creates it
EmptyStats ==
    [words |-> 0, characters |-> 0, characters_no_spaces |-> 0,
     sentences |-> 0, paragraphs |-> 0, unique_words |-> 0,
     avg_word_length |-> FloatZero, reading_time_seconds |-> 0,
     top_words |-> <<>>, longest_words |-> <<>>]

\* `not text`: only the empty text
IsBlankText_EmptyOnly(t) == t = <<>>

\* `not text.strip()`
IsBlankText(t) == str_strip(t) = <<>>

\* len([p for p in text.split('\n\n') if p.strip()])
count_paragraphs(t) ==
    Len(SelectSeq(str_split_blank_line(t), LAMBDA p : str_strip(p) # <<>>))

\* a sentence count that keeps the blank segments
count_sentences_KeepBlank(t) == Len(re_split_terminators(t))

\* len([s for s in re.split(r'[.!?]+', text) if s.strip()])
count_sentences(t) ==
    Len(SelectSeq(re_split_terminators(t), LAMBDA x : str_strip(x) # <<>>))

\* len(text.replace(" ", "").replace("\n", "").replace("\t", ""))
count_characters_no_spaces(t) ==
    Len(str_remove(str_remove(str_remove(t, " "), "\n"), "\t"))

\* the local `words`: re.findall(r'\b\w+\b', text.lower())
analyze_words(t) == findall_word(str_lower(t))

\* a word count that leaves out the one-letter words
count_words_SkipShort(ws) == Len(SelectSeq(ws, LAMBDA w : Len(w) > 1))

\* stats['words'] = len(words)
count_words(ws) == Len(ws)

\* the lengths of ws[1..i], added up
RECURSIVE total_letters(_, _)
total_letters(ws, i) ==
    IF i = 0 THEN 0 ELSE total_letters(ws, i - 1) + Len(ws[i])

\* a sum over the distinct words only
sum_word_lengths_Unique(ws) ==
    LET first == SelectSeq([i \in 1..Len(ws) |-> IF \E j \in 1..(i - 1) : ws[j] = ws[i]
                                                  THEN <<>> ELSE ws[i]],
                           LAMBDA w : w # <<>>)
    IN  total_letters(first, Len(first))

\* total_letters = sum(len(word) for word in words)
sum_word_lengths(ws) == total_letters(ws, Len(ws))

\* the elements of a list, as set(ws) holds them
SetOf(ws) == {ws[i] : i \in 1..Len(ws)}

\* the values `unique_words[:5]` can take for the word list ws: one for each
\* order list(set(words)) can have
longest_words_of(ws) ==
    {sort_longest(unique_words, LongestN) : unique_words \in ListsOfSet(SetOf(ws))}

\* the report for text t, when the sorted list(set(words)) starts with
\* longest_words
analyze_with_python(t, longest_words) ==
    IF IsBlankText(t) THEN EmptyStats
    ELSE LET ws == analyze_words(t)
             wc == Counter(ws)
             basic == [EmptyStats EXCEPT
                          !.characters = Len(t),
                          !.characters_no_spaces = count_characters_no_spaces(t),
                          !.paragraphs = count_paragraphs(t),
                          !.sentences = count_sentences(t),
                          !.words = count_words(ws)]
         IN  IF ws = <<>> THEN basic
             ELSE [basic EXCEPT
                      !.unique_words = Len(wc),
                      !.top_words = most_common(wc, TopN),
                      !.longest_words = longest_words,
                      !.avg_word_length = FloatDiv(sum_word_lengths(ws), Len(ws)),
                      !.reading_time_seconds = reading_time_seconds(Len(ws))]

----------------------------------------------------------------------------
(* split_text_into_chunks *)

\* a // b, Python's floor division, for b # 0
FloorDiv(a, b) == IF b > 0 THEN a \div b ELSE (0 - a) \div (0 - b)

\* the index a slice bound k stands for in a list of length n
SliceIndex(k, n) == IF k < 0 THEN Max(0, n + k) ELSE Min(k, n)

\* s[lo:hi], counting from 0, negative bounds counting from the end
PySlice(s, lo, hi) == SubSeq(s, SliceIndex(lo, Len(s)) + 1, SliceIndex(hi, Len(s)))

\* "".join(ss)
RECURSIVE str_join(_, _)
str_join(ss, i) == IF i = 0 THEN <<>> ELSE str_join(ss, i - 1) \o ss[i]

\* [text[i:i+chunk_size] for i in range(0, length, chunk_size)]
SliceChunks(t, chunk_size) ==
    [k \in 1..((Len(t) + chunk_size - 1) \div chunk_size) |->
        PySlice(t, (k - 1) * chunk_size, (k - 1) * chunk_size + chunk_size)]

\* whether split_text_into_chunks(t, n) raises (length // 0)
split_raises(t, n) == t # <<>> /\ n = 0

\* a merge that starts one chunk too late: chunks[num_chunks:]
split_text_into_chunks_LateMerge(t, n) ==
    IF t = <<>> THEN <<>>
    ELSE LET chunk_size == Max(1, FloorDiv(Len(t), n))
             cs == SliceChunks(t, chunk_size)
         IN  IF Len(cs) > n
             THEN LET last_chunk == LET tl == PySlice(cs, n, Len(cs))
                                    IN  str_join(tl, Len(tl))
                  IN  Append(PySlice(cs, 0, n - 1), last_chunk)
             ELSE cs

\* the list split_text_into_chunks(t, n) returns, when it does not raise
split_text_into_chunks(t, n) ==
    IF t = <<>> THEN <<>>
    ELSE LET chunk_size == Max(1, FloorDiv(Len(t), n))
             cs == SliceChunks(t, chunk_size)
         IN  IF Len(cs) > n
             THEN LET last_chunk == LET tl == PySlice(cs, n - 1, Len(cs))
                                    IN  str_join(tl, Len(tl))
                  IN  Append(PySlice(cs, 0, n - 1), last_chunk)
             ELSE cs

----------------------------------------------------------------------------
(* generate_word_heatmap: the matrix is a sequence of rows, one per word,   *)
(* each a sequence of counts, one per chunk (numpy holds the counts as      *)
(* floats, which hold them exactly)                                         *)

\* d.get(w, 0) on a Counter
CounterGet(d, w) ==
    IF \E i \in DOMAIN d : d[i][1] = w
    THEN d[CHOOSE i \in DOMAIN d : d[i][1] = w][2]
    ELSE 0

\* num_chunks=20 in generate_word_heatmap's call of split_text_into_chunks
DefaultChunks == 20

\* top_n=15, the default of generate_word_heatmap
DefaultTopN == 15

\* the value None of generate_word_heatmap
NoHeatmap == [none |-> TRUE, matrix |-> <<>>, words |-> <<>>, chunks |-> <<>>]

\* [word for word, _ in word_counts.most_common(top_n)]
heatmap_top_words(ws, n) ==
    LET top == most_common(Counter(ws), n)
    IN  [j \in DOMAIN top |-> top[j][1]]

\* a matrix whose every column counts the words of the whole text
heatmap_matrix_WholeText(top_words, cs) ==
    LET whole_counts == Counter(extract_words(str_lower(str_join(cs, Len(cs)))))
    IN  [j \in DOMAIN top_words |->
            [i \in DOMAIN cs |-> CounterGet(whole_counts, top_words[j])]]

\* a matrix filled from the last chunk to the first
heatmap_matrix_Backwards(top_words, cs) ==
    [j \in DOMAIN top_words |->
        [i \in DOMAIN cs |->
            CounterGet(Counter(extract_words(str_lower(cs[Len(cs) + 1 - i]))),
                       top_words[j])]]

\* a matrix that marks the chunks a word occurs in, and does not count
heatmap_matrix_Presence(top_words, cs) ==
    [j \in DOMAIN top_words |->
        [i \in DOMAIN cs |->
            IF CounterGet(Counter(extract_words(str_lower(cs[i]))), top_words[j]) > 0
            THEN 1 ELSE 0]]

\* freq_matrix[j, i] = chunk_counts.get(word, 0), for each chunk i and each
\* word j of top_words
heatmap_matrix(top_words, cs) ==
    [j \in DOMAIN top_words |->
        [i \in DOMAIN cs |->
            CounterGet(Counter(extract_words(str_lower(cs[i]))), top_words[j])]]

\* [f"Part {i+1}" for i in range(len(chunks))]: the label "Part k" is k
heatmap_chunk_labels(cs) == [i \in DOMAIN cs |-> i]

\* a heatmap that is built even when no word was found
generate_word_heatmap_NoWordCheck(t, n) ==
    IF IsBlankText(t) THEN NoHeatmap
    ELSE LET cs == split_text_into_chunks(t, DefaultChunks)
             top_words == heatmap_top_words(extract_words(str_lower(t)), n)
         IN  [none |-> FALSE,
              matrix |-> heatmap_matrix(top_words, cs),
              words |-> top_words,
              chunks |-> heatmap_chunk_labels(cs)]

\* generate_word_heatmap(text, top_n)
generate_word_heatmap(t, n) ==
    IF IsBlankText(t) THEN NoHeatmap
    ELSE LET cs == split_text_into_chunks(t, DefaultChunks)
             top_words == heatmap_top_words(extract_words(str_lower(t)), n)
         IN  IF top_words = <<>> THEN NoHeatmap
             ELSE [none |-> FALSE,
                   matrix |-> heatmap_matrix(top_words, cs),
                   words |-> top_words,
                   chunks |-> heatmap_chunk_labels(cs)]

----------------------------------------------------------------------------
(* update_keyword_analysis: the keyword table is a sequence of rows *)

\* x < y for floats x, y >= 0
FloatLess(x, y) ==
    IF y.m = <<>> THEN FALSE
    ELSE IF x.m = <<>> THEN TRUE
    ELSE \/ x.e < y.e
         \/ /\ x.e = y.e
            /\ \E i \in 1..MantissaBits :
                   /\ x.m[i] < y.m[i]
                   /\ \A j \in 1..(i - 1) : x.m[j] = y.m[j]

\* the floats 0.5 and 2.0 of the optimal range
DensityLow == FloatDiv(1, 2)

DensityHigh == FloatDiv(2, 1)

\* f"{x:.2f}" for a float x >= 0, as the number of hundredths shown: x * 100
\* exactly, rounded to the nearest integer, ties to even
FormatHundredths(x) ==
    IF x.m = <<>> THEN 0
    ELSE LET p == BitsTimes(x.m, 100, [i |-> Len(x.m), carry |-> 0, out |-> <<>>])
             k == Len(p) - (MantissaBits - 1) + x.e
         IN  IF k < 0 THEN 0
             ELSE LET whole == BitsToInt(p, k)
                      guard == p[k + 1]
                      below == \E i \in (k + 2)..Len(p) : p[i] = 1
                  IN  IF guard = 1 /\ (below \/ whole % 2 = 1)
                      THEN whole + 1 ELSE whole

\* [k.strip().lower() for k in keywords_text.split(',')]
parse_keywords(kt) ==
    LET parts == StrSplitCharFrom(kt, ",", 1, 1)
    IN  [i \in DOMAIN parts |-> str_lower(str_strip(parts[i]))]

\* a count of the words that hold the keyword anywhere inside them
keyword_count_Substring(wc, keyword) ==
    LET Holds(w) == \E a \in 1..(Len(w) + 1) :
                        /\ a + Len(keyword) - 1 <= Len(w)
                        /\ SubSeq(w, a, a + Len(keyword) - 1) = keyword
        hits == SelectSeq(wc, LAMBDA item : Holds(item[1]))
    IN  SumOfCounts(hits, Len(hits))

\* count = word_counts.get(keyword, 0)
keyword_count(wc, keyword) == CounterGet(wc, keyword)

\* a density left as a fraction
keyword_density_Fraction(count, total_words) ==
    IF total_words > 0 THEN FloatDiv(count, total_words) ELSE FloatZero

\* density = (count / total_words * 100) if total_words > 0 else 0
keyword_density(count, total_words) ==
    IF total_words > 0 THEN FloatTimes(FloatDiv(count, total_words), 100)
    ELSE FloatZero

\* the colour of the density item
density_color(density) ==
    IF ~FloatLess(density, DensityLow) /\ ~FloatLess(DensityHigh, density)
    THEN "green"
    ELSE IF FloatLess(density, DensityLow) THEN "orange" ELSE "red"

\* a status whose optimal range leaves out its lower bound
density_status_ExclusiveLow(density) ==
    IF density = FloatZero THEN "Not found"
    ELSE IF ~FloatLess(DensityLow, density) THEN "Too low"
    ELSE IF FloatLess(DensityHigh, density) THEN "Too high"
    ELSE "Optimal"

\* the status of a row
density_status(density) ==
    IF density = FloatZero THEN "Not found"
    ELSE IF FloatLess(density, DensityLow) THEN "Too low"
    ELSE IF FloatLess(DensityHigh, density) THEN "Too high"
    ELSE "Optimal"

\* the recommendation a row adds, if any
density_advice(density) ==
    IF density = FloatZero THEN "Add keyword"
    ELSE IF FloatLess(density, DensityLow) THEN "Increase usage"
    ELSE IF FloatLess(DensityHigh, density) THEN "Reduce usage"
    ELSE "none"

\* the items one pass of the loop sets, for a keyword found count times
\* among total_words words
keyword_row(keyword, count, total_words) ==
    LET density == keyword_density(count, total_words)
    IN  [keyword |-> keyword,
         count   |-> count,
         density |-> density,
         shown   |-> FormatHundredths(density),
         color   |-> density_color(density),
         status  |-> density_status(density)]

\* the rows the loop over `keywords` sets
keyword_table_rows(keywords, ws) ==
    LET wc == Counter(ws)
    IN  [i \in DOMAIN keywords |->
            keyword_row(keywords[i], keyword_count(wc, keywords[i]), Len(ws))]

\* the list `recommendations`, each item as <<advice, keyword>>
keyword_recommendations(rows) ==
    LET advice == [i \in DOMAIN rows |->
                      <<density_advice(rows[i].density), rows[i].keyword>>]
    IN  SelectSeq(advice, LAMBDA a : a[1] # "none")

\* the text set on seo_recommendations: the first three recommendations,
\* or the all-optimal message
recommendations_text(rows) ==
    LET recommendations == keyword_recommendations(rows)
    IN  IF recommendations # <<>>
        THEN [kind |-> "recommendations", items |-> Take(recommendations, 3)]
        ELSE [kind |-> "optimal", items |-> <<>>]

\* seo_recommendations.setText("")
NoRecommendations == [kind |-> "", items |-> <<>>]

----------------------------------------------------------------------------
(* update_readability_scores: the scores come from the textstat library;   *)
(* the Flesch Reading Ease score is held as a number of tenths, and the     *)
(* whole numbers it is compared with as ten times as many                   *)

Tenths(n) == 10 * n

\* readability_desc.setText("")
NoDescription == [level |-> "", audience |-> ""]

\* a table that a score must exceed, not reach
flesch_level_Exclusive(score) ==
    IF score > Tenths(90) THEN "Very Easy (5th grade)"
    ELSE IF score > Tenths(80) THEN "Easy (6th grade)"
    ELSE IF score > Tenths(70) THEN "Fairly Easy (7th grade)"
    ELSE IF score > Tenths(60) THEN "Standard (8th-9th grade)"
    ELSE IF score > Tenths(50) THEN "Fairly Difficult (10th-12th grade)"
    ELSE IF score > Tenths(30) THEN "Difficult (College)"
    ELSE "Very Difficult (College Graduate)"

\* level, by the chain flesch_score >= 90 ... >= 30
flesch_level(score) ==
    IF score >= Tenths(90) THEN "Very Easy (5th grade)"
    ELSE IF score >= Tenths(80) THEN "Easy (6th grade)"
    ELSE IF score >= Tenths(70) THEN "Fairly Easy (7th grade)"
    ELSE IF score >= Tenths(60) THEN "Standard (8th-9th grade)"
    ELSE IF score >= Tenths(50) THEN "Fairly Difficult (10th-12th grade)"
    ELSE IF score >= Tenths(30) THEN "Difficult (College)"
    ELSE "Very Difficult (College Graduate)"

\* get_target_audience(score)
get_target_audience(score) ==
    IF score >= Tenths(80) THEN "Children, casual readers"
    ELSE IF score >= Tenths(60) THEN "General public, blogs"
    ELSE IF score >= Tenths(40) THEN "Academic, professional"
    ELSE "Experts, technical papers"

\* the description update_readability_scores(t) sets, textstat scoring t
\* as score
update_readability_scores(t, score) ==
    IF IsBlankText(t) THEN NoDescription
    ELSE [level |-> flesch_level(score), audience |-> get_target_audience(score)]

----------------------------------------------------------------------------
(* Inputs *)

MaxLen == 3

MaxParagraphText == 5

MaxTail == 2

MaxChunkText == 10

MaxChunks == 6

MaxWordCount == 2000

MaxTopN == 3

MaxKeywordText == 3

MaxTotalWords == 400

MaxHits == 10

MaxScoreTenths == 1100

MaxNegative == 3

\* self.update_interval, in milliseconds
UpdateInterval == 500

\* the value of timer_due while update_timer is not running
TimerStopped == 0 - 1

\* the entries stats_history keeps
HistoryLimit == 100

\* the characters of the text an entry of stats_history shows
PreviewLength == 100

\* the edits, clears and pastes the user makes in the window
MaxActions == 2

\* the milliseconds a step of the clock takes
TickMs == 250

\* the times update_stats is made to run to fill the history
MaxRuns == 105

\* the characters of the short texts
Chars == {"a", "b", "A", "1", " ", "\n", "\t", "\r", ".", "!"}

RECURSIVE SeqsUpTo(_, _)
SeqsUpTo(S, n) ==
    IF n = 0 THEN {<<>>}
    ELSE LET shorter == SeqsUpTo(S, n - 1)
         IN  shorter \cup {Append(q, x) : q \in {r \in shorter : Len(r) = n - 1}, x \in S}

ShortTexts == SeqsUpTo(Chars, MaxLen)

\* six words, two of each length, in an order that is not the alphabet's
Vocabulary ==
    <<<<"f", "f", "f">>, <<"b">>, <<"e", "e", "e">>, <<"a">>, <<"d", "d">>, <<"c", "c">>>>

\* " ".join(ws)
RECURSIVE JoinWords(_, _)
JoinWords(ws, i) ==
    IF i = 0 THEN <<>>
    ELSE IF i = 1 THEN ws[1]
         ELSE JoinWords(ws, i - 1) \o <<" ">> \o ws[i]

\* every word of the vocabulary once, then up to MaxTail more of them
WordTexts ==
    {JoinWords(Vocabulary \o tail, Len(Vocabulary) + Len(tail)) :
        tail \in SeqsUpTo(SetOf(Vocabulary), MaxTail)}

ExampleText ==
    <<"T", "h", "e", " ", "c", "a", "t", " ", "s", "a", "t", " ", "o",
      "n", " ", "t", "h", "e", " ", "m", "a", "t", ".", " ", "T", "h",
      "e", " ", "c", "a", "t", " ", "r", "a", "n", ".">>

\* two paragraphs, three sentences
SampleParagraphs ==
    <<"O", "n", "e", ".", " ", "T", "w", "o", "!", "\n", "\n", "T",
      "h", "r", "e", "e", "?">>

\* digits and underscores inside words, case folding
SampleMixed ==
    <<"a", "b", "c", "1", "2", "3", " ", "x", "_", "y", " ", "A", "B",
      " ", "a", "b">>

\* seven distinct words, three of them repeated
SampleManyWords ==
    <<"t", "o", " ", "b", "e", " ", "o", "r", " ", "n", "o", "t", " ",
      "t", "o", " ", "b", "e", " ", "t", "h", "a", "t", " ", "i", "s",
      " ", "i", "t", " ", "i", "s">>

\* runs of terminators, and a segment of whitespace only
SampleSentences ==
    <<"H", "i", "!", "?", " ", "O", "k", ".", "\t", "!", " ", "n", "o">>

SampleTexts ==
    {ExampleText, SampleParagraphs, SampleMixed, SampleManyWords, SampleSentences}

\* the texts of letters, spaces and newlines: runs of one, two, three and
\* more newlines
ParagraphChars == {"a", " ", "\n"}

ParagraphTexts == SeqsUpTo(ParagraphChars, MaxParagraphText)

Texts == ShortTexts \cup ParagraphTexts \cup WordTexts \cup SampleTexts

\* sixty characters of one- and two-letter words: chunks three characters
\* wide, with words cut at the seams
SampleShortWords ==
    <<"g", "o", " ", "t", "o", " ", "a", " ", "o", "r", " ", "b", " ", "i", "f",
      " ", "a", " ", "i", "s", " ", "s", "o", " ", "t", "o", " ", "g", "o", " ",
      "b", " ", "a", " ", "o", "r", " ", "a", " ", "n", "o", " ", "b", " ", "a",
      "s", " ", "i", "s", " ", "o", "r", " ", "n", "o", " ", "a", " ", "t", "o">>

\* sixty characters whose chunks of three end where words end
SampleAlignedWords ==
    <<"a", " ", "a", " ", "g", "o", " ", " ", " ", "a", " ", "b", " ", "a", " ",
      "g", "o", " ", "a", "1", " ", " ", "n", "o", " ", " ", "a", " ", "b", " ",
      "n", "o", " ", "a", " ", "a", " ", "a", " ", "b", " ", " ", "g", "o", " ",
      " ", "a", " ", "a", "1", " ", " ", "b", " ", "n", "o", " ", " ", "a", " ">>

\* the texts handed to generate_word_heatmap
HeatmapTexts ==
    SeqsUpTo({"a", "1", " "}, MaxLen) \cup WordTexts \cup SampleTexts
        \cup {SampleShortWords, SampleAlignedWords}

\* the values of top_n: the small ones, negative ones included, the
\* slider's 5 and 50, and the default
TopCounts == ((0 - MaxNegative)..MaxTopN) \cup {5, DefaultTopN, 50}

SampleCats ==
    <<"c", "a", "t", " ", "c", "a", "t", " ", "d", "o", "g">>

\* a keyword inside longer words
SampleSubstrings ==
    <<"c", "a", "t", " ", "C", "a", "t", "s", " ", "c", "o", "n", "c", "a", "t">>

\* a text that is not blank and has no word of letters
SampleNoLetters == <<"1", "2", " ", "3">>

\* the texts of the keyword analysis
KeywordTexts ==
    SeqsUpTo({"a", "b", " "}, MaxLen)
        \cup {SampleCats, SampleSubstrings, SampleMixed, SampleNoLetters}

KeywordsCatBird == <<"c", "a", "t", ",", " ", "b", "i", "r", "d">>

KeywordsWithGap == <<"C", "a", "t", " ", ",", ",", "c", "a", "t">>

\* the contents of keyword_input
KeywordStrings ==
    SeqsUpTo({"a", "B", ",", " "}, MaxKeywordText)
        \cup {KeywordsCatBird, KeywordsWithGap}

\* the scores textstat may return: from -10.0 up, in steps of 0.1
FleschScores == (0 - 100)..MaxScoreTenths

\* the texts whose readability is described: blank ones and one that is not
ReadabilityTexts == {<<>>, <<" ">>, <<"a">>, ExampleText}

\* three words of one length
SampleThreeWords == <<"t", "o", " ", "b", "e", " ", "o", "r">>

\* the texts analysed twice
RepeatTexts == SeqsUpTo({"a", "b", " "}, MaxLen) \cup {SampleCats, SampleThreeWords}

\* a text with a word that holds a digit
SampleDigitWord == <<"a", "1", " ", "b">>

\* the texts typed, pasted and cleared in the window
UITexts == {<<>>, <<"a">>, SampleDigitWord}

\* the contents of keyword_input in the window
UIKeywords == {<<>>, <<"b">>}

\* the score textstat returns in the window
UIScores == {Tenths(45)}

\* a text longer than an entry's preview, of words of nine letters
LongText == [i \in 1..(PreviewLength + 1) |-> IF i % 10 = 0 THEN " " ELSE "a"]

\* the texts pasted one after the other, the k-th after k pastes
HistoryTexts == <<<<"a">>, SampleDigitWord, LongText>>

HistoryText(k) == HistoryTexts[(k % Len(HistoryTexts)) + 1]

\* the first MaxChunkText letters of the alphabet and every prefix of them
ChunkAlphabet ==
    <<"a", "b", "c", "d", "e", "f", "g", "h", "i", "j", "k", "l", "m",
      "n", "o", "p", "q", "r", "s", "t", "u", "v", "w", "x", "y", "z">>

ChunkTexts == {SubSeq(ChunkAlphabet, 1, n) : n \in 0..Min(MaxChunkText, 26)}

\* the chunk counts asked for: the small ones, negative ones included, the
\* caller's 20, and 100
ChunkCounts == ((0 - MaxNegative)..MaxChunks) \cup {DefaultChunks, 100}

----------------------------------------------------------------------------
(* The engine's calls *)

\* the inputs of the calls that a specification does not make
IdleInputs ==
    /\ keyword_hits = 0
    /\ flesch_score = 0
    /\ set_order = <<>>

Idle ==
    /\ pc = "input"
    /\ stats = EmptyStats
    /\ words = <<>>
    /\ word_counts = <<>>
    /\ num_chunks = DefaultChunks
    /\ chunks = <<>>
    /\ raised = "none"
    /\ reading_time = 0
    /\ extracted = <<>>
    /\ top_n = DefaultTopN
    /\ heatmap = NoHeatmap
    /\ keyword_rows = <<>>
    /\ seo_recommendations = NoRecommendations
    /\ readability_desc = NoDescription
    /\ stats_again = EmptyStats
    /\ now = 0
    /\ timer_due = TimerStopped
    /\ edited_at = 0
    /\ stats_history = <<>>
    /\ actions = 0
    /\ stats_text = <<>>
    /\ keyword_text = <<>>

Init ==
    /\ text \in Texts
    /\ nwords = 0
    /\ keywords_text = <<>>
    /\ IdleInputs
    /\ Idle

\* stats_dict = self.analyze_with_python(text)
Analyze ==
    /\ pc = "input"
    /\ \E longest_words \in longest_words_of(IF IsBlankText(text) THEN <<>>
                                             ELSE analyze_words(text)) :
           stats' = analyze_with_python(text, longest_words)
    /\ words' = IF IsBlankText(text) THEN <<>> ELSE analyze_words(text)
    /\ word_counts' = IF IsBlankText(text) THEN <<>> ELSE Counter(analyze_words(text))
    /\ pc' = "analyzed"
    /\ UNCHANGED <<text, num_chunks, chunks, raised, nwords, reading_time,
                   keywords_text, toolVars>>
    /\ UNCHANGED sessionVars
    /\ UNCHANGED windowVars

\* words = self.extract_words(text.lower())
ExtractWords ==
    /\ pc = "input"
    /\ extracted' = extract_words(str_lower(text))
    /\ pc' = "extracted"
    /\ UNCHANGED <<text, stats, words, word_counts, num_chunks, chunks, raised,
                   nwords, reading_time, keywords_text, top_n, heatmap,
                   keyword_rows, seo_recommendations>>
    /\ UNCHANGED sessionVars
    /\ UNCHANGED windowVars

Next == Analyze \/ ExtractWords

Spec == Init /\ [][Next]_vars

InitChunks ==
    /\ text \in ChunkTexts
    /\ nwords = 0
    /\ keywords_text = <<>>
    /\ IdleInputs
    /\ Idle

\* chunks = self.split_text_into_chunks(text, num_chunks=n)
SplitChunks(n) ==
    /\ pc = "input"
    /\ num_chunks' = n
    /\ IF split_raises(text, n)
       THEN raised' = "ZeroDivisionError" /\ chunks' = <<>>
       ELSE raised' = "none" /\ chunks' = split_text_into_chunks(text, n)
    /\ pc' = "chunked"
    /\ UNCHANGED <<text, stats, words, word_counts, nwords, reading_time,
                   keywords_text, toolVars>>
    /\ UNCHANGED sessionVars
    /\ UNCHANGED windowVars

NextChunks == \E n \in ChunkCounts : SplitChunks(n)

SpecChunks == InitChunks /\ [][NextChunks]_vars

InitReading ==
    /\ text = <<>>
    /\ nwords \in 0..MaxWordCount
    /\ keywords_text = <<>>
    /\ IdleInputs
    /\ Idle

\* stats['reading_time_seconds'] = int((len(words) / 225) * 60)
ComputeReadingTime ==
    /\ pc = "input"
    /\ reading_time' = reading_time_seconds(nwords)
    /\ pc' = "timed"
    /\ UNCHANGED <<text, stats, words, word_counts, num_chunks, chunks, raised,
                   nwords, keywords_text, toolVars>>
    /\ UNCHANGED sessionVars
    /\ UNCHANGED windowVars

NextReading == ComputeReadingTime

SpecReading == InitReading /\ [][NextReading]_vars

InitHeatmap ==
    /\ text \in HeatmapTexts
    /\ nwords = 0
    /\ keywords_text = <<>>
    /\ IdleInputs
    /\ Idle

\* heatmap_data = self.generate_word_heatmap(text, top_n=n)
GenerateHeatmap(n) ==
    /\ pc = "input"
    /\ top_n' = n
    /\ heatmap' = generate_word_heatmap(text, n)
    /\ pc' = "heatmapped"
    /\ UNCHANGED <<text, stats, words, word_counts, num_chunks, chunks, raised,
                   nwords, reading_time, keywords_text, extracted,
                   keyword_rows, seo_recommendations>>
    /\ UNCHANGED sessionVars
    /\ UNCHANGED windowVars

NextHeatmap == \E n \in TopCounts : GenerateHeatmap(n)

SpecHeatmap == InitHeatmap /\ [][NextHeatmap]_vars

InitKeywords ==
    /\ text \in KeywordTexts
    /\ nwords = 0
    /\ keywords_text \in KeywordStrings
    /\ IdleInputs
    /\ Idle

\* self.update_keyword_analysis()
UpdateKeywordAnalysis ==
    /\ pc = "input"
    /\ IF IsBlankText(text) \/ IsBlankText(keywords_text)
       THEN /\ keyword_rows' = <<>>
            /\ seo_recommendations' = NoRecommendations
       ELSE LET rows == keyword_table_rows(parse_keywords(keywords_text),
                                           extract_words(str_lower(text)))
            IN  /\ keyword_rows' = rows
                /\ seo_recommendations' = recommendations_text(rows)
    /\ pc' = "keywords"
    /\ UNCHANGED <<text, stats, words, word_counts, num_chunks, chunks, raised,
                   nwords, reading_time, keywords_text, extracted, top_n,
                   heatmap>>
    /\ UNCHANGED sessionVars
    /\ UNCHANGED windowVars

NextKeywords == UpdateKeywordAnalysis

SpecKeywords == InitKeywords /\ [][NextKeywords]_vars

InitDensity ==
    /\ text = <<>>
    /\ nwords \in 0..MaxTotalWords
    /\ keyword_hits \in 0..MaxHits
    /\ keyword_hits <= nwords
    /\ flesch_score = 0
    /\ set_order = <<>>
    /\ keywords_text = <<>>
    /\ Idle

\* one pass of the loop of update_keyword_analysis, for a keyword found
\* keyword_hits times among nwords words
RateKeyword ==
    /\ pc = "input"
    /\ keyword_rows' = <<keyword_row(<<"k">>, keyword_hits, nwords)>>
    /\ pc' = "rated"
    /\ UNCHANGED <<text, stats, words, word_counts, num_chunks, chunks, raised,
                   nwords, reading_time, keywords_text, extracted, top_n,
                   heatmap, seo_recommendations>>
    /\ UNCHANGED sessionVars
    /\ UNCHANGED windowVars

NextDensity == RateKeyword

SpecDensity == InitDensity /\ [][NextDensity]_vars

InitReadability ==
    /\ text \in ReadabilityTexts
    /\ flesch_score \in FleschScores
    /\ nwords = 0
    /\ keyword_hits = 0
    /\ set_order = <<>>
    /\ keywords_text = <<>>
    /\ Idle

\* self.update_readability_scores(text)
UpdateReadability ==
    /\ pc = "input"
    /\ readability_desc' = update_readability_scores(text, flesch_score)
    /\ pc' = "described"
    /\ UNCHANGED <<text, stats, words, word_counts, num_chunks, chunks, raised,
                   nwords, reading_time, keywords_text, toolVars, keyword_hits,
                   flesch_score, set_order, stats_again>>
    /\ UNCHANGED windowVars

NextReadability == UpdateReadability

SpecReadability == InitReadability /\ [][NextReadability]_vars

\* the orders list(set(words)) can have for the words of text t
SetOrders(t) == ListsOfSet(SetOf(IF IsBlankText(t) THEN <<>> ELSE analyze_words(t)))

InitRepeat ==
    /\ text \in RepeatTexts
    /\ set_order \in SetOrders(text)
    /\ nwords = 0
    /\ keyword_hits = 0
    /\ flesch_score = 0
    /\ keywords_text = <<>>
    /\ Idle

\* stats_dict = self.analyze_with_python(text), the first call
AnalyzeOnce ==
    /\ pc = "input"
    /\ stats' = analyze_with_python(text, sort_longest(set_order, LongestN))
    /\ pc' = "analyzed once"
    /\ UNCHANGED <<text, words, word_counts, num_chunks, chunks, raised, nwords,
                   reading_time, keywords_text, toolVars, keyword_hits,
                   flesch_score, readability_desc, set_order, stats_again>>
    /\ UNCHANGED windowVars

\* the program is closed and started again: a new hash seed, another order
RestartProcess ==
    /\ pc = "analyzed once"
    /\ set_order' \in SetOrders(text) \ {set_order}
    /\ pc' = "restarted"
    /\ UNCHANGED <<text, stats, words, word_counts, num_chunks, chunks, raised,
                   nwords, reading_time, keywords_text, toolVars, keyword_hits,
                   flesch_score, readability_desc, stats_again>>
    /\ UNCHANGED windowVars

\* stats_dict = self.analyze_with_python(text), a second call on the text
AnalyzeAgain ==
    /\ pc \in {"analyzed once", "restarted"}
    /\ stats_again' = analyze_with_python(text, sort_longest(set_order, LongestN))
    /\ pc' = IF pc = "restarted" THEN "analyzed anew" ELSE "analyzed twice"
    /\ UNCHANGED <<text, stats, words, word_counts, num_chunks, chunks, raised,
                   nwords, reading_time, keywords_text, toolVars, keyword_hits,
                   flesch_score, readability_desc, set_order>>
    /\ UNCHANGED windowVars

NextRepeat == AnalyzeOnce \/ RestartProcess \/ AnalyzeAgain

SpecRepeat == InitRepeat /\ [][NextRepeat]_vars

----------------------------------------------------------------------------
(* The window: the debounce timer, update_stats and the history *)

\* what no handler of the window writes
engineVars == <<pc, num_chunks, chunks, raised, nwords, reading_time, top_n,
                keyword_hits, set_order, stats_again>>

\* on_text_changed with a timer that is left to run when it already runs
on_text_changed_NoRestart(due, t) ==
    IF due # TimerStopped THEN due ELSE t + UpdateInterval

\* on_text_changed at time t: update_timer.stop(); update_timer.start(500);
\* the value is when the timer is due
on_text_changed(due, t) == t + UpdateInterval

\* text[:100] + "..." if len(text) > 100 else text
text_preview(t) ==
    IF Len(t) > PreviewLength
    THEN SubSeq(t, 1, PreviewLength) \o <<".", ".", ".">>
    ELSE t

\* an append that drops the new entry when the history is full
history_append_DropNewest(h, entry) ==
    LET appended == Append(h, entry)
    IN  IF Len(appended) > HistoryLimit
        THEN SubSeq(appended, 1, Len(appended) - 1)
        ELSE appended

\* stats_history.append(entry); if len(stats_history) > 100: pop(0)
history_append(h, entry) ==
    LET appended == Append(h, entry)
    IN  IF Len(appended) > HistoryLimit THEN Tail(appended) ELSE appended

\* whether a call that sets the buffer to new emits textChanged: it does when
\* the text changes, and Qt decides when the text stays what it was
Emits(old, new) == IF old # new THEN {TRUE} ELSE BOOLEAN

\* textChanged reaches on_text_changed, when it is emitted
TextChanged(emitted) ==
    IF emitted
    THEN /\ timer_due' = on_text_changed(timer_due, now)
         /\ edited_at' = now
    ELSE UNCHANGED <<timer_due, edited_at>>

\* self.update_stats() with t in the buffer
update_stats(t) ==
    /\ stats_text' = t
    /\ \E longest_words \in longest_words_of(IF IsBlankText(t) THEN <<>>
                                             ELSE analyze_words(t)) :
           stats' = analyze_with_python(t, longest_words)
    /\ words' = IF IsBlankText(t) THEN <<>> ELSE analyze_words(t)
    /\ word_counts' = IF IsBlankText(t) THEN <<>> ELSE Counter(analyze_words(t))
    /\ heatmap' = generate_word_heatmap(t, top_n)
    /\ \E score \in UIScores :
           /\ flesch_score' = score
           /\ readability_desc' = update_readability_scores(t, score)
    /\ stats_history' =
           history_append(stats_history,
                          [timestamp |-> now,
                           stats |-> stats',
                           text_preview |-> text_preview(t)])

\* the user types or deletes in text_input, leaving t in it
TypeText(t) ==
    /\ t # text
    /\ text' = t
    /\ TextChanged(TRUE)
    /\ actions' = actions + 1
    /\ UNCHANGED <<stats, words, word_counts, heatmap, flesch_score,
                   readability_desc, stats_history, stats_text, keywords_text,
                   keyword_rows, seo_recommendations, keyword_text>>
    /\ UNCHANGED <<now, extracted, engineVars>>

\* clear_text: self.text_input.clear(); self.update_stats()
ClearText ==
    /\ text' = <<>>
    /\ \E emitted \in Emits(text, <<>>) : TextChanged(emitted)
    /\ update_stats(<<>>)
    /\ actions' = actions + 1
    /\ UNCHANGED <<keywords_text, keyword_rows, seo_recommendations, keyword_text>>
    /\ UNCHANGED <<now, extracted, engineVars>>

\* paste_from_clipboard with t on the clipboard
PasteFromClipboard(t) ==
    IF t = <<>>
    THEN UNCHANGED vars
    ELSE /\ text' = t
         /\ \E emitted \in Emits(text, t) : TextChanged(emitted)
         /\ update_stats(t)
         /\ actions' = actions + 1
         /\ UNCHANGED <<keywords_text, keyword_rows, seo_recommendations,
                        keyword_text>>
         /\ UNCHANGED <<now, extracted, engineVars>>

\* the user edits keyword_input, leaving k in it: textChanged reaches
\* update_keyword_analysis
EditKeywords(k) ==
    /\ k # keywords_text
    /\ keywords_text' = k
    /\ keyword_text' = text
    /\ IF IsBlankText(text) \/ IsBlankText(k)
       THEN /\ keyword_rows' = <<>>
            /\ seo_recommendations' = NoRecommendations
            /\ UNCHANGED extracted
       ELSE LET rows == keyword_table_rows(parse_keywords(k),
                                           extract_words(str_lower(text)))
            IN  /\ extracted' = extract_words(str_lower(text))
                /\ keyword_rows' = rows
                /\ seo_recommendations' = recommendations_text(rows)
    /\ UNCHANGED <<text, stats, words, word_counts, heatmap, flesch_score,
                   readability_desc, stats_history, stats_text, actions,
                   timer_due, edited_at>>
    /\ UNCHANGED <<now, engineVars>>

\* time passes while update_timer runs, up to the time it is due
Tick ==
    /\ timer_due # TimerStopped
    /\ now < timer_due
    /\ now' = Min(now + TickMs, timer_due)
    /\ UNCHANGED <<text, stats, words, word_counts, heatmap, flesch_score,
                   readability_desc, stats_history, stats_text, keywords_text,
                   keyword_rows, seo_recommendations, keyword_text, actions,
                   timer_due, edited_at>>
    /\ UNCHANGED <<extracted, engineVars>>

\* update_timer times out: the single shot calls update_stats
TimerFires ==
    /\ timer_due # TimerStopped
    /\ now = timer_due
    /\ timer_due' = TimerStopped
    /\ update_stats(text)
    /\ UNCHANGED <<text, keywords_text, keyword_rows, seo_recommendations,
                   keyword_text, actions, edited_at>>
    /\ UNCHANGED <<now, extracted, engineVars>>

InitUI ==
    /\ text = <<>>
    /\ nwords = 0
    /\ keywords_text = <<>>
    /\ IdleInputs
    /\ Idle

NextUI ==
    \/ /\ actions < MaxActions
       /\ \/ \E t \in UITexts : TypeText(t)
          \/ ClearText
          \/ \E t \in UITexts : PasteFromClipboard(t)
    \/ \E k \in UIKeywords : EditKeywords(k)
    \/ Tick
    \/ TimerFires

SpecUI == InitUI /\ [][NextUI]_vars

\* the step in which update_timer times out: TimerFires, the only step that
\* stops the timer, seen by what it does to the timer
TimerExpires ==
    /\ timer_due # TimerStopped
    /\ now = timer_due
    /\ timer_due' = TimerStopped

\* time passes, and the event loop delivers a timeout that is due
FairUI == WF_vars(Tick) /\ WF_timer_due(TimerExpires)

SpecUIFair == SpecUI /\ FairUI

\* the last update_stats ran at the present time
JustUpdated ==
    /\ stats_history # <<>>
    /\ stats_history[Len(stats_history)].timestamp = now

InitHistory ==
    /\ text \in {<<>>, <<"b">>}
    /\ nwords = 0
    /\ keywords_text = <<>>
    /\ IdleInputs
    /\ Idle

\* the user pastes another text every TickMs, MaxRuns times, and stops
NextHistory ==
    \/ /\ actions < MaxRuns
       /\ ~JustUpdated
       /\ PasteFromClipboard(HistoryText(actions))
    \/ /\ JustUpdated \/ actions >= MaxRuns
       /\ Tick
    \/ TimerFires

SpecHistory == InitHistory /\ [][NextHistory]_vars

----------------------------------------------------------------------------
(* What the claims speak of, stated on the text itself: the tokens are the  *)
(* maximal runs of word characters of the lowercased text                   *)

Analyzed == pc = "analyzed"

LowText == str_lower(text)

\* the offsets at which a run of word characters starts
TokenStarts ==
    {i \in 1..Len(text) :
        IsWordChar(LowText[i]) /\ (i = 1 \/ ~IsWordChar(LowText[i - 1]))}

\* <<i, j>>: the characters i..j are a maximal run of word characters
TokenSpans ==
    {<<i, CHOOSE j \in i..Len(text) :
              /\ \A k \in i..j : IsWordChar(LowText[k])
              /\ j = Len(text) \/ ~IsWordChar(LowText[j + 1])>> : i \in TokenStarts}

TokenAt(sp) == SubSeq(LowText, sp[1], sp[2])

TokenSet == {TokenAt(sp) : sp \in TokenSpans}

\* the number of tokens equal to w
Occurrences(w) == Cardinality({sp \in TokenSpans : TokenAt(sp) = w})

\* the offset at which w first occurs as a token
FirstOccurrence(w) ==
    LET starts == {sp[1] : sp \in {x \in TokenSpans : TokenAt(x) = w}}
    IN  CHOOSE i \in starts : \A j \in starts : i <= j

AllWhitespace(t) == \A i \in 1..Len(t) : IsSpace(t[i])

\* C1: after an analysis, the counts of the frequency table word_counts sum
\* to the reported words value, and each word's count is the number of
\* tokens equal to it: every token is counted exactly once.
C1_CountsSumToWords ==
    Analyzed =>
        /\ SumOfCounts(word_counts, Len(word_counts)) = stats.words
        /\ stats.words = Cardinality(TokenSpans)
        /\ \A i \in DOMAIN word_counts :
               word_counts[i][2] = Occurrences(word_counts[i][1])

\* an analysed text in which some word is repeated
C1_Witness ==
    /\ Analyzed
    /\ stats.words >= 3
    /\ \E i \in DOMAIN word_counts : word_counts[i][2] >= 2
    /\ Len(word_counts) >= 2

\* C2: the report's unique_words, the size of the frequency table, never
\* exceeds its words.
C2_UniqueAtMostWords ==
    Analyzed => /\ stats.unique_words = Len(word_counts)
                /\ stats.unique_words <= stats.words

\* an analysed text with repeated words: unique_words is strictly smaller
C2_Witness ==
    Analyzed /\ stats.unique_words >= 2 /\ stats.unique_words < stats.words

\* C3: for an empty or whitespace-only text the report has every numeric
\* field 0 and both lists empty, and no exception is raised.
C3_BlankTextZeroReport ==
    Analyzed /\ AllWhitespace(text) =>
        /\ raised = "none"
        /\ stats.words = 0
        /\ stats.characters = 0
        /\ stats.characters_no_spaces = 0
        /\ stats.sentences = 0
        /\ stats.paragraphs = 0
        /\ stats.unique_words = 0
        /\ stats.avg_word_length = FloatZero
        /\ stats.reading_time_seconds = 0
        /\ stats.top_words = <<>>
        /\ stats.longest_words = <<>>

\* a whitespace-only text that is not empty has been analysed
C3_Witness ==
    Analyzed /\ Len(text) >= 2 /\ AllWhitespace(text) /\ "\r" \in CharsOf(text)

\* C4 as stated: the example text yields words=8, sentences=2,
\* paragraphs=1, unique_words=6, and top_words starts with ("the",2),
\* ("cat",2), ahead of sat/on/mat/ran.
C4_ExampleReport_Original ==
    Analyzed /\ text = ExampleText =>
        /\ stats.words = 8
        /\ stats.sentences = 2
        /\ stats.paragraphs = 1
        /\ stats.unique_words = 6
        /\ Len(stats.top_words) >= 2
        /\ stats.top_words[1] = <<<<"t", "h", "e">>, 2>>
        /\ stats.top_words[2] = <<<<"c", "a", "t">>, 2>>

\* C4, amended: the example text has nine words, "the" three times: it
\* yields words=9, sentences=2, paragraphs=1, unique_words=6, and top_words
\* is ("the",3), ("cat",2), then sat, on, mat (once each) in first-seen
\* order, ran being left out of the five.
C4_ExampleReport ==
    Analyzed /\ text = ExampleText =>
        /\ stats.words = 9
        /\ stats.sentences = 2
        /\ stats.paragraphs = 1
        /\ stats.unique_words = 6
        /\ stats.top_words = <<<<<<"t", "h", "e">>, 3>>, <<<<"c", "a", "t">>, 2>>,
                               <<<<"s", "a", "t">>, 1>>, <<<<"o", "n">>, 1>>,
                               <<<<"m", "a", "t">>, 1>>>>

\* the example text has been analysed
C4_Witness == Analyzed /\ text = ExampleText /\ stats.characters = 36

Chunked == pc = "chunked"

\* the offset in the text at which chunk k starts, the chunks being laid
\* end to end
RECURSIVE ChunkOffset(_, _)
ChunkOffset(cs, k) == IF k = 1 THEN 0 ELSE ChunkOffset(cs, k - 1) + Len(cs[k - 1])

\* C5 as stated: split_text_into_chunks(text, n) returns exactly
\* min(n, len(text)) chunks for a non-empty text and none for the empty
\* text, for every chunk count n >= 0.
C5_ChunkCount_Original ==
    Chunked /\ num_chunks >= 0 =>
        /\ raised = "none"
        /\ Len(chunks) = IF text = <<>> THEN 0 ELSE Min(num_chunks, Len(text))

\* C6: for a non-empty text and n >= 1 the chunks are non-empty, lie end to
\* end in the text in ascending offset order and together are the text;
\* every chunk but the last has the width max(1, len(text) // n) and the
\* last one is at least that wide.
C6_ChunksPartitionText ==
    Chunked /\ text # <<>> /\ num_chunks >= 1 =>
        LET width == Max(1, Len(text) \div num_chunks)
        IN  /\ raised = "none"
            /\ Len(chunks) >= 1
            /\ \A k \in DOMAIN chunks :
                   /\ chunks[k] # <<>>
                   /\ chunks[k] = SubSeq(text, ChunkOffset(chunks, k) + 1,
                                         ChunkOffset(chunks, k) + Len(chunks[k]))
                   /\ k < Len(chunks) => Len(chunks[k]) = width
            /\ Len(chunks[Len(chunks)]) >= width
            /\ ChunkOffset(chunks, Len(chunks)) + Len(chunks[Len(chunks)]) = Len(text)

\* a split in which the last chunk took the remainder: it is wider than
\* the others
C6_Witness ==
    /\ Chunked
    /\ num_chunks >= 2
    /\ Len(chunks) = num_chunks
    /\ Len(chunks[1]) >= 2
    /\ Len(chunks[Len(chunks)]) > Len(chunks[1])

\* C7: top_words holds min(5, distinct words) pairs (word, count), each
\* count the word's number of occurrences, in descending count, words of
\* equal count in the order of their first occurrence in the text; no word
\* left out occurs more often than a word included.
C7_TopWords ==
    Analyzed =>
        LET top == stats.top_words
        IN  /\ Len(top) = Min(5, Cardinality(TokenSet))
            /\ \A i \in DOMAIN top :
                   /\ top[i][1] \in TokenSet
                   /\ top[i][2] = Occurrences(top[i][1])
            /\ \A i, j \in DOMAIN top :
                   i < j => \/ top[i][2] > top[j][2]
                            \/ /\ top[i][2] = top[j][2]
                               /\ FirstOccurrence(top[i][1]) < FirstOccurrence(top[j][1])
            /\ \A w \in TokenSet :
                   (\A i \in DOMAIN top : top[i][1] # w) =>
                       \A i \in DOMAIN top : Occurrences(w) <= top[i][2]

\* more than five distinct words, a repeated word that came late in the
\* text ranked first, and words of equal count among the five
C7_Witness ==
    /\ Analyzed
    /\ Cardinality(TokenSet) > 5
    /\ stats.top_words[1][2] > stats.top_words[2][2]
    /\ stats.top_words[2][2] = stats.top_words[3][2]
    /\ \E w \in TokenSet : FirstOccurrence(w) < FirstOccurrence(stats.top_words[1][1])

\* C8 as stated: longest_words holds min(5, distinct words) distinct words
\* in descending length, words of equal length in the order of their first
\* occurrence in the text; no word left out is longer than a word included.
C8_LongestWords_Original ==
    Analyzed =>
        LET lw == stats.longest_words
        IN  /\ Len(lw) = Min(5, Cardinality(TokenSet))
            /\ \A i \in DOMAIN lw : lw[i] \in TokenSet
            /\ \A i, j \in DOMAIN lw :
                   i < j => \/ Len(lw[i]) > Len(lw[j])
                            \/ /\ Len(lw[i]) = Len(lw[j])
                               /\ FirstOccurrence(lw[i]) < FirstOccurrence(lw[j])
            /\ \A w \in TokenSet :
                   (\A i \in DOMAIN lw : lw[i] # w) =>
                       \A i \in DOMAIN lw : Len(w) <= Len(lw[i])

\* the number of word characters of the text: the lengths of all its
\* tokens, repeated words counted each time
WordCharacters == Cardinality({k \in 1..Len(text) : IsWordChar(LowText[k])})

\* C9: avg_word_length is the total length of all tokens, repeated words
\* counted each time, divided by words; with no tokens it is 0 and no
\* division is done.
C9_AvgWordLength ==
    Analyzed =>
        /\ raised = "none"
        /\ stats.avg_word_length =
               IF TokenSpans = {} THEN FloatZero
               ELSE FloatDiv(WordCharacters, stats.words)

\* the lengths of the words of a set, added up
RECURSIVE LengthOfAll(_)
LengthOfAll(S) ==
    IF S = {} THEN 0
    ELSE LET w == CHOOSE x \in S : TRUE IN Len(w) + LengthOfAll(S \ {w})

\* a text with a repeated word, whose average over the distinct words is
\* another number
C9_Witness ==
    /\ Analyzed
    /\ Cardinality(TokenSet) < stats.words
    /\ stats.avg_word_length # FloatZero
    /\ stats.avg_word_length # FloatDiv(LengthOfAll(TokenSet), Cardinality(TokenSet))

\* C10 as stated: reading_time_seconds is floor(words * 60 / 225), the
\* whole number of seconds it takes to read the words at 225 a minute.
C10_ReadingTime_Original ==
    pc = "timed" => reading_time = (nwords * SecondsPerMinute) \div WordsPerMinute

----------------------------------------------------------------------------
(* Characters, sentences and paragraphs, stated on the text itself *)

\* <<i, j>>: the characters i..j are a maximal run of characters whose
\* offsets are not separators
SegmentSpans(IsSeparator(_)) ==
    {<<i, CHOOSE j \in i..Len(text) :
              /\ \A k \in i..j : ~IsSeparator(k)
              /\ j = Len(text) \/ IsSeparator(j + 1)>> :
        i \in {k \in 1..Len(text) :
                  ~IsSeparator(k) /\ (k = 1 \/ IsSeparator(k - 1))}}

\* the segments that hold a character that is not whitespace
SpokenSegments(IsSeparator(_)) ==
    {sp \in SegmentSpans(IsSeparator) : \E k \in sp[1]..sp[2] : ~IsSpace(text[k])}

WhitespaceCount == Cardinality({i \in 1..Len(text) : IsSpace(text[i])})

TerminatorAt(i) == text[i] \in {".", "!", "?"}

\* offset i holds a newline of a run of two or more newlines
BlankLineAt(i) ==
    /\ text[i] = "\n"
    /\ \/ i > 1 /\ text[i - 1] = "\n"
       \/ i < Len(text) /\ text[i + 1] = "\n"

\* C11 as stated: for a text that is not blank, characters is the length of
\* the text and characters_no_spaces is that length minus the number of
\* whitespace characters of every kind, so it never exceeds characters.
C11_CharacterCounts_Original ==
    Analyzed /\ ~AllWhitespace(text) =>
        /\ stats.characters = Len(text)
        /\ stats.characters_no_spaces = Len(text) - WhitespaceCount
        /\ stats.characters_no_spaces <= stats.characters

\* C12: sentences is the number of segments, holding a character that is
\* not whitespace, between the runs of '.', '!' and '?'; a text that is not
\* blank and has no such punctuation is one sentence.
C12_Sentences ==
    Analyzed =>
        /\ stats.sentences = Cardinality(SpokenSegments(TerminatorAt))
        /\ (~AllWhitespace(text) /\ \A i \in 1..Len(text) : ~TerminatorAt(i))
               => stats.sentences = 1

\* an analysed text with a run of two terminators and a segment of
\* whitespace only, and one with no terminator at all
C12_Witness ==
    /\ Analyzed
    /\ stats.sentences = 3
    /\ \E i \in 2..Len(text) : TerminatorAt(i - 1) /\ TerminatorAt(i)
    /\ \E sp \in SegmentSpans(TerminatorAt) : \A k \in sp[1]..sp[2] : IsSpace(text[k])

\* C13: paragraphs is the number of segments, holding a character that is
\* not whitespace, between the runs of two or more newlines: the split at
\* every two newlines that the code makes gives that count for every text,
\* runs of three or more newlines included.
C13_Paragraphs ==
    Analyzed => stats.paragraphs = Cardinality(SpokenSegments(BlankLineAt))

\* an analysed text of two paragraphs with a run of three newlines between
\* them
C13_Witness ==
    /\ Analyzed
    /\ stats.paragraphs = 2
    /\ \E i \in 2..(Len(text) - 3) :
           /\ text[i] = "\n" /\ text[i + 1] = "\n" /\ text[i + 2] = "\n"
           /\ ~IsSpace(text[i - 1]) /\ ~IsSpace(text[i + 3])

----------------------------------------------------------------------------
(* Word extraction, stated on the text itself *)

\* the spans of S from left to right
SpansInOrder(S) ==
    [k \in 1..Cardinality(S) |->
        CHOOSE sp \in S : Cardinality({x \in S : x[1] < sp[1]}) = k - 1]

\* the maximal runs of the characters that are not separators, left to
\* right, as words of the lowercased text
RunsInOrder(IsSeparator(_)) ==
    LET spans == SpansInOrder(SegmentSpans(IsSeparator))
    IN  [k \in DOMAIN spans |-> TokenAt(spans[k])]

NotWordCharAt(i) == ~IsWordChar(LowText[i])

NotLetterAt(i) == LowText[i] \notin LowerLetters

\* C14 as stated: word extraction returns, left to right, exactly the
\* maximal runs of the characters of its class, letters, digits and
\* underscore in analyze_with_python and letters only in extract_words;
\* what lies between is dropped and no character of the class is lost.
C14_MaximalRuns_Original ==
    /\ Analyzed /\ ~AllWhitespace(text) => words = RunsInOrder(NotWordCharAt)
    /\ pc = "extracted" => extracted = RunsInOrder(NotLetterAt)

----------------------------------------------------------------------------
(* The heatmap, stated on the text itself: the vocabulary words are the     *)
(* tokens made of letters only                                              *)

Heatmapped == pc = "heatmapped"

\* <<i, j>>: within the characters a..b of the lowercased text, i..j is a
\* maximal run of word characters, all of them letters
LetterRunsIn(a, b) ==
    {sp \in (a..b) \X (a..b) :
        /\ sp[1] <= sp[2]
        /\ \A k \in sp[1]..sp[2] : LowText[k] \in LowerLetters
        /\ sp[1] = a \/ ~IsWordChar(LowText[sp[1] - 1])
        /\ sp[2] = b \/ ~IsWordChar(LowText[sp[2] + 1])}

LetterWords == {TokenAt(sp) : sp \in LetterRunsIn(1, Len(text))}

\* the number of letter-only tokens equal to w within the characters a..b
OccurrencesIn(w, a, b) ==
    Cardinality({sp \in LetterRunsIn(a, b) : TokenAt(sp) = w})

\* the offset at which w first occurs as a letter-only token
FirstLetterOccurrence(w) ==
    LET starts == {sp[1] : sp \in {x \in LetterRunsIn(1, Len(text)) : TokenAt(x) = w}}
    IN  CHOOSE i \in starts : \A j \in starts : i <= j

\* the heatmap's chunks: twenty of them, or one per character of a shorter
\* text
HeatmapChunkCount == IF Len(text) < 20 THEN Len(text) ELSE 20

HeatmapChunkWidth == IF Len(text) < 20 THEN 1 ELSE Len(text) \div 20

\* the first and last character of chunk i
HeatmapChunkFirst(i) == (i - 1) * HeatmapChunkWidth + 1

HeatmapChunkLast(i) ==
    IF i = HeatmapChunkCount THEN Len(text) ELSE i * HeatmapChunkWidth

\* C15: generate_word_heatmap returns None, and does not raise, for an
\* empty or whitespace-only text, for a text from which no vocabulary word
\* is extracted, and for top_n = 0.
C15_HeatmapFailsSoftly ==
    Heatmapped =>
        /\ raised = "none"
        /\ (AllWhitespace(text) \/ LetterWords = {} \/ top_n = 0)
               => heatmap = NoHeatmap

\* a heatmap asked for zero words of a text that has words, and none made
C15_Witness ==
    Heatmapped /\ top_n = 0 /\ Cardinality(LetterWords) >= 2 /\ heatmap.none

\* C16: the vocabulary of a heatmap is the top_n words of the whole text;
\* the matrix has one row per vocabulary word and one column per chunk, and
\* the cell of a word and a chunk is the number of that chunk's tokens equal
\* to the word, 0 when there is none: no row is left out.
C16_HeatmapMatrix ==
    Heatmapped /\ ~heatmap.none =>
        /\ Len(heatmap.words) = Min(top_n, Cardinality(LetterWords))
        /\ \A j \in DOMAIN heatmap.words : heatmap.words[j] \in LetterWords
        /\ \A j, k \in DOMAIN heatmap.words :
               j # k => heatmap.words[j] # heatmap.words[k]
        /\ DOMAIN heatmap.matrix = DOMAIN heatmap.words
        /\ Len(heatmap.chunks) = HeatmapChunkCount
        /\ \A j \in DOMAIN heatmap.matrix :
               /\ DOMAIN heatmap.matrix[j] = 1..HeatmapChunkCount
               /\ \A i \in 1..HeatmapChunkCount :
                      heatmap.matrix[j][i] =
                          OccurrencesIn(heatmap.words[j], HeatmapChunkFirst(i),
                                        HeatmapChunkLast(i))

\* a heatmap with a cell of two or more, and a row of zeros only: a word of
\* the vocabulary that no chunk holds whole
C16_Witness ==
    /\ Heatmapped /\ ~heatmap.none
    /\ Len(heatmap.chunks) = 20
    /\ \E j \in DOMAIN heatmap.matrix : \E i \in 1..20 : heatmap.matrix[j][i] >= 2
    /\ \E j \in DOMAIN heatmap.matrix : \A i \in 1..20 : heatmap.matrix[j][i] = 0

\* C17: row j of a heatmap is the j-th word of the whole text's ranking,
\* by count descending and by first occurrence among equal counts; column i
\* is the i-th chunk by ascending offset, labelled Part i.
C17_HeatmapOrder ==
    Heatmapped /\ ~heatmap.none =>
        /\ \A j, k \in DOMAIN heatmap.words :
               j < k =>
                   LET cj == OccurrencesIn(heatmap.words[j], 1, Len(text))
                       ck == OccurrencesIn(heatmap.words[k], 1, Len(text))
                   IN  \/ cj > ck
                       \/ /\ cj = ck
                          /\ FirstLetterOccurrence(heatmap.words[j])
                                 < FirstLetterOccurrence(heatmap.words[k])
        /\ \A w \in LetterWords :
               (\A j \in DOMAIN heatmap.words : heatmap.words[j] # w) =>
                   \A j \in DOMAIN heatmap.words :
                       LET cj == OccurrencesIn(heatmap.words[j], 1, Len(text))
                           cw == OccurrencesIn(w, 1, Len(text))
                       IN  \/ cj > cw
                           \/ /\ cj = cw
                              /\ FirstLetterOccurrence(heatmap.words[j])
                                     < FirstLetterOccurrence(w)
        /\ heatmap.chunks = [i \in 1..HeatmapChunkCount |-> i]
        /\ \A j \in DOMAIN heatmap.matrix : \A i \in DOMAIN heatmap.matrix[j] :
               heatmap.matrix[j][i] =
                   OccurrencesIn(heatmap.words[j], (i - 1) * HeatmapChunkWidth + 1,
                                 IF i = Len(heatmap.chunks) THEN Len(text)
                                 ELSE i * HeatmapChunkWidth)

\* a heatmap of fewer words than the text has, two of them of equal count,
\* whose columns differ
C17_Witness ==
    /\ Heatmapped /\ ~heatmap.none
    /\ Len(heatmap.words) >= 2
    /\ Len(heatmap.words) < Cardinality(LetterWords)
    /\ OccurrencesIn(heatmap.words[1], 1, Len(text))
           = OccurrencesIn(heatmap.words[2], 1, Len(text))
    /\ \E i, k \in DOMAIN heatmap.matrix[1] :
           heatmap.matrix[1][i] # heatmap.matrix[1][k]

----------------------------------------------------------------------------
(* The keyword table, stated on the keyword string and the text *)

KeywordsDone == pc = "keywords"

\* <<i, j>>: the characters i..j of the keyword string lie between two
\* commas (or an end of the string) and are not all whitespace, i being the
\* first and j the last that is not whitespace
KeywordSpans ==
    {sp \in (1..Len(keywords_text)) \X (1..Len(keywords_text)) :
        /\ sp[1] <= sp[2]
        /\ \A k \in sp[1]..sp[2] : keywords_text[k] # ","
        /\ ~IsSpace(keywords_text[sp[1]]) /\ ~IsSpace(keywords_text[sp[2]])
        /\ \E a \in 0..sp[1] : \E b \in sp[2]..(Len(keywords_text) + 1) :
               /\ a = 0 \/ keywords_text[a] = ","
               /\ b = Len(keywords_text) + 1 \/ keywords_text[b] = ","
               /\ \A k \in ((a + 1)..(sp[1] - 1)) \cup ((sp[2] + 1)..(b - 1)) :
                      IsSpace(keywords_text[k])}

\* the keywords of the keyword string: trimmed, lowercased, none empty, in
\* the caller's order
CanonicalKeywords ==
    LET spans == SpansInOrder(KeywordSpans)
    IN  [k \in DOMAIN spans |->
            str_lower(SubSeq(keywords_text, spans[k][1], spans[k][2]))]

RowKeywords == [i \in DOMAIN keyword_rows |-> keyword_rows[i].keyword]

\* the number of letter-only tokens of the text
LetterTokenCount == Cardinality(LetterRunsIn(1, Len(text)))

\* C18 as stated: the keyword table has one row per keyword of the keyword
\* string, split at commas, trimmed and lowercased, the entries that are
\* empty after trimming dropped; duplicates stay, in the caller's order; a
\* blank text or a keyword string with no keywords gives no rows, and no
\* error.
C18_KeywordRows_Original ==
    KeywordsDone =>
        /\ raised = "none"
        /\ IF AllWhitespace(text) \/ CanonicalKeywords = <<>>
           THEN keyword_rows = <<>>
           ELSE RowKeywords = CanonicalKeywords

\* C19: the count of a row is the number of tokens of the lowercased word
\* stream that equal the row's keyword; a keyword inside a longer token is
\* not counted.
C19_KeywordCount ==
    KeywordsDone =>
        \A i \in DOMAIN keyword_rows :
            keyword_rows[i].count = OccurrencesIn(keyword_rows[i].keyword, 1, Len(text))

\* a row whose keyword is counted once and lies inside two longer tokens
C19_Witness ==
    /\ KeywordsDone
    /\ \E i \in DOMAIN keyword_rows :
           /\ keyword_rows[i].count = 1
           /\ LET kw == keyword_rows[i].keyword
              IN  Cardinality({sp \in LetterRunsIn(1, Len(text)) :
                      /\ sp[2] - sp[1] + 1 > Len(kw)
                      /\ \E a \in sp[1]..sp[2] :
                             /\ a + Len(kw) - 1 <= sp[2]
                             /\ SubSeq(LowText, a, a + Len(kw) - 1) = kw}) >= 2

\* C20: the density of a row is 100 * count / total_words when the text has
\* words and 0 when it has none, so it lies between 0 and 100; the table
\* shows it to two decimals.  For "cat cat dog" and "cat, bird": cat has
\* count 2 and density 66.67%, bird has count 0 and density 0%.
C20_KeywordDensity ==
    KeywordsDone =>
        /\ \A i \in DOMAIN keyword_rows :
               LET count == OccurrencesIn(keyword_rows[i].keyword, 1, Len(text))
                   off   == keyword_rows[i].shown * LetterTokenCount - 10000 * count
               IN  /\ ~FloatLess(FloatDiv(100, 1), keyword_rows[i].density)
                   /\ keyword_rows[i].shown \in 0..10000
                   /\ IF LetterTokenCount = 0
                      THEN keyword_rows[i].density = FloatZero
                      ELSE /\ 2 * off <= LetterTokenCount
                           /\ 0 - 2 * off <= LetterTokenCount
                           /\ (count = 0) = (keyword_rows[i].density = FloatZero)
                           /\ (count = LetterTokenCount)
                                  = (keyword_rows[i].density = FloatDiv(100, 1))
        /\ (text = SampleCats /\ keywords_text = KeywordsCatBird) =>
               /\ Len(keyword_rows) = 2
               /\ keyword_rows[1].count = 2 /\ keyword_rows[1].shown = 6667
               /\ keyword_rows[2].count = 0 /\ keyword_rows[2].shown = 0

\* the example's table: two of three words are the keyword, shown as 66.67
C20_Witness ==
    /\ KeywordsDone
    /\ text = SampleCats /\ keywords_text = KeywordsCatBird
    /\ keyword_rows[1].shown = 6667

----------------------------------------------------------------------------
(* The status of a keyword, stated on the count and the number of words *)

Rated == pc = "rated"

\* C21: the status of a keyword is decided by its density alone, one status
\* for each value: Not found at 0, Too low between 0 and 0.5, Optimal from
\* 0.5 to 2.0 with both ends, Too high above 2.0.
C21_KeywordStatus ==
    Rated =>
        keyword_rows[1].status =
            IF keyword_hits = 0 THEN "Not found"
            ELSE IF 200 * keyword_hits < nwords THEN "Too low"
            ELSE IF 100 * keyword_hits > 2 * nwords THEN "Too high"
            ELSE "Optimal"

\* a keyword found once among 200 words: a density of exactly 0.5
C21_Witness ==
    /\ Rated
    /\ keyword_hits = 1 /\ nwords = 200
    /\ keyword_rows[1].status = "Optimal"

----------------------------------------------------------------------------
(* The readability labels, stated as threshold tables *)

Described == pc = "described" /\ ~AllWhitespace(text)

\* the boundaries of the reading-level table and of the audience table
LevelBoundaries == {Tenths(90), Tenths(80), Tenths(70), Tenths(60), Tenths(50), Tenths(30)}

AudienceBoundaries == {Tenths(80), Tenths(60), Tenths(40)}

\* the highest boundary of B that the score s reaches, -1000 if none
BandOf(B, s) ==
    IF \E b \in B : b <= s
    THEN CHOOSE b \in B : b <= s /\ \A c \in B : c <= s => c <= b
    ELSE 0 - 1000

LevelOfBand(b) ==
    IF b = Tenths(90) THEN "Very Easy (5th grade)"
    ELSE IF b = Tenths(80) THEN "Easy (6th grade)"
    ELSE IF b = Tenths(70) THEN "Fairly Easy (7th grade)"
    ELSE IF b = Tenths(60) THEN "Standard (8th-9th grade)"
    ELSE IF b = Tenths(50) THEN "Fairly Difficult (10th-12th grade)"
    ELSE IF b = Tenths(30) THEN "Difficult (College)"
    ELSE "Very Difficult (College Graduate)"

AudienceOfBand(b) ==
    IF b = Tenths(80) THEN "Children, casual readers"
    ELSE IF b = Tenths(60) THEN "General public, blogs"
    ELSE IF b = Tenths(40) THEN "Academic, professional"
    ELSE "Experts, technical papers"

\* the scores from 0 to 100
InRange(s) == 0 <= s /\ s <= Tenths(100)

\* C22 as stated: the reading level and the target audience both follow
\* from the Flesch score by the one table of boundaries 90/80/70/60/50/30:
\* every score from 0 to 100 gets the label of the highest boundary it
\* reaches, so two scores that reach the same boundary get the same labels.
C22_ReadabilityLabels_Original ==
    Described /\ InRange(flesch_score) =>
        /\ readability_desc.level = LevelOfBand(BandOf(LevelBoundaries, flesch_score))
        /\ \A s \in FleschScores :
               InRange(s) /\ BandOf(LevelBoundaries, s) = BandOf(LevelBoundaries, flesch_score)
                   => get_target_audience(s) = readability_desc.audience

\* C22, amended: the reading level follows from the Flesch score by the
\* table of boundaries 90/80/70/60/50/30 and the target audience by a table
\* of its own, of boundaries 80/60/40: every score gets one label of each
\* kind, that of the highest boundary of the table it reaches.
C22_ReadabilityLabels ==
    Described =>
        /\ readability_desc.level = LevelOfBand(BandOf(LevelBoundaries, flesch_score))
        /\ readability_desc.audience
               = AudienceOfBand(BandOf(AudienceBoundaries, flesch_score))

\* a score of 45.0: Difficult, for an academic audience, where a score of
\* 35.0 of the same level is for experts
C22_Witness ==
    /\ Described
    /\ flesch_score = Tenths(45)
    /\ readability_desc.level = "Difficult (College)"
    /\ readability_desc.audience = "Academic, professional"

----------------------------------------------------------------------------
(* Counts that are zero or negative *)

\* C23 as stated: a chunk count or a top_n that is zero or negative is
\* taken as 0: split_text_into_chunks and generate_word_heatmap then return
\* an empty or absent result for any text, and do not raise.
C23_ConfigNeverRaises_Original ==
    /\ Chunked /\ num_chunks <= 0 => raised = "none" /\ chunks = <<>>
    /\ Heatmapped /\ top_n <= 0 => raised = "none" /\ heatmap.none

----------------------------------------------------------------------------
(* Two analyses of one text *)

\* C24 as stated: two calls of analyze_with_python on the same text give
\* the same report, field by field, the order of top_words and
\* longest_words included.
C24_Deterministic_Original ==
    pc \in {"analyzed twice", "analyzed anew"} => stats_again = stats

----------------------------------------------------------------------------
(* The window's claims *)

\* update_stats has run, and on the text that is in the buffer
StatsCurrent == stats_history # <<>> /\ stats_text = text

\* update_keyword_analysis has filled the table from the text in the buffer
KeywordsCurrent == keyword_rows # <<>> /\ keyword_text = text

\* C25 as stated: one token stream feeds every analyzer, so that for the
\* text in the buffer the keyword analyzer's total word count is the
\* report's `words`, and the heatmap's vocabulary and the report's
\* top_words rank the words alike, one list being a prefix of the other.
C25_OneTokenization_Original ==
    StatsCurrent =>
        /\ KeywordsCurrent => Len(extracted) = stats.words
        /\ ~heatmap.none =>
               \A i \in 1..Min(Len(heatmap.words), Len(stats.top_words)) :
                   heatmap.words[i] = stats.top_words[i][1]

\* the runs of update_stats so far when the user pastes every TickMs: one
\* for each paste, and the timer's one after the last paste
RunCount == actions + (IF actions > 0 /\ timer_due = TimerStopped THEN 1 ELSE 0)

\* when the n-th run took place, and on which text
RunTime(n) == IF n <= actions THEN (n - 1) * TickMs ELSE edited_at + UpdateInterval

RunText(n) == IF n <= actions THEN HistoryText(n - 1) ELSE text

\* entry e of the history shows the text t: all of it, or its first hundred
\* characters and three dots
Shows(e, t) ==
    /\ Len(e.text_preview) = IF Len(t) > PreviewLength THEN PreviewLength + 3 ELSE Len(t)
    /\ \A k \in 1..Min(Len(t), PreviewLength) : e.text_preview[k] = t[k]
    /\ e.stats.characters = Len(t)

\* C26: stats_history holds at most 100 entries, in the order they were
\* produced; it holds the latest runs of update_stats, the newest one
\* last, so that the entry evicted for a new one is the oldest.
C26_HistoryRing ==
    /\ Len(stats_history) <= HistoryLimit
    /\ Len(stats_history) = Min(RunCount, HistoryLimit)
    /\ \A i \in DOMAIN stats_history :
           LET n == RunCount - Len(stats_history) + i
           IN  /\ stats_history[i].timestamp = RunTime(n)
               /\ Shows(stats_history[i], RunText(n))
    /\ \A i \in DOMAIN stats_history : \A j \in DOMAIN stats_history :
           i < j => stats_history[i].timestamp < stats_history[j].timestamp

\* a full history after more runs than it holds, the timer's among them
C26_Witness ==
    /\ Len(stats_history) = HistoryLimit
    /\ RunCount > HistoryLimit + 1
    /\ timer_due = TimerStopped
    /\ stats_history[1].timestamp = (RunCount - HistoryLimit) * TickMs

\* a step in which the running timer stops: its timeout, which is the only
\* thing that stops it
TimerDriven == timer_due # TimerStopped /\ timer_due' = TimerStopped

\* C27: every text change restarts the single-shot timer, so no
\* timer-driven update_stats runs until 500 ms have passed without a further
\* edit; the update that then runs analyses the text as the last edit left
\* it; and while an edit waits for its update, such an update eventually
\* runs.
C27_Debounce ==
    /\ [][text' # text => timer_due' = now + UpdateInterval]_vars
    /\ [][TimerDriven =>
             /\ now >= edited_at + UpdateInterval
             /\ text' = text
             /\ stats_text' = text
             /\ stats'.characters = Len(text)
             /\ stats_history' # <<>>
             /\ stats_history'[Len(stats_history')].timestamp = now
             /\ stats_history'[Len(stats_history')].stats = stats']_vars
    /\ (timer_due # TimerStopped) ~> (timer_due = TimerStopped /\ StatsCurrent)

\* two edits a tick apart, and the one update that came 500 ms after the
\* second
C27_Witness ==
    /\ actions = 2
    /\ edited_at > 0
    /\ timer_due = TimerStopped
    /\ now = edited_at + UpdateInterval
    /\ Len(stats_history) = 1
    /\ stats_history[1].timestamp = now
    /\ StatsCurrent
    /\ text # <<>>

\* C28 as stated: once update_stats has run and no edit waits for its
\* update, everything shown belongs to the text in the buffer: the counts
\* and the heatmap, and the keyword rows too, one for each keyword of
\* keyword_input with its count in that text.
C28_WholeReportRecomputed_Original ==
    (stats_history # <<>> /\ timer_due = TimerStopped) =>
        /\ stats_text = text
        /\ stats.characters = Len(text)
        /\ heatmap.none = (LetterWords = {})
        /\ IF AllWhitespace(text) \/ CanonicalKeywords = <<>>
           THEN keyword_rows = <<>>
           ELSE /\ RowKeywords = CanonicalKeywords
                /\ \A i \in DOMAIN keyword_rows :
                       keyword_rows[i].count
                           = OccurrencesIn(keyword_rows[i].keyword, 1, Len(text))

\* C29 as stated: every edit, Clear or Paste of the user makes update_stats
\* run once at most, a burst of edits once for the whole burst, so that the
\* history never holds more entries than the user has made changes.
C29_OneUpdatePerAction_Original == Len(stats_history) <= actions

----------------------------------------------------------------------------
(* Chunk seams *)

\* no chunk of the heatmap ends inside a run of word characters
SeamFree ==
    \A i \in 1..(HeatmapChunkCount - 1) :
        ~(IsWordChar(text[HeatmapChunkLast(i)])
              /\ IsWordChar(text[HeatmapChunkLast(i) + 1]))

RECURSIVE RowSum(_)
RowSum(row) == IF row = <<>> THEN 0 ELSE Head(row) + RowSum(Tail(row))

\* C30: when no chunk boundary falls inside a run of word characters, the
\* row of a vocabulary word sums, over all chunks, to the word's count in
\* the whole text; the two differ only when a seam cuts a word.
C30_ChunkingConservesCounts ==
    Heatmapped /\ ~heatmap.none /\ SeamFree =>
        \A j \in DOMAIN heatmap.words :
            RowSum(heatmap.matrix[j]) = OccurrencesIn(heatmap.words[j], 1, Len(text))

\* a text of chunks three wide, none of them cutting a word, with a word
\* found twice in one chunk and five times or more in all
C30_Witness ==
    /\ Heatmapped /\ ~heatmap.none /\ SeamFree
    /\ HeatmapChunkWidth >= 3
    /\ \E j \in DOMAIN heatmap.words :
           /\ \E i \in DOMAIN heatmap.matrix[j] : heatmap.matrix[j][i] >= 2
           /\ RowSum(heatmap.matrix[j]) >= 5

====
